---- MODULE Spec2Model ----
(***************************************************************************)
(* Model of package control of go-debian: the reflection driven decoder    *)
(* (decode.go) and encoder (encode.go) between Paragraphs and Go structs,  *)
(* and the streaming Encoder.                                              *)
(*                                                                         *)
(* Text is a sequence of one-character strings, so that strings.Split,     *)
(* strings.Join, strconv.Atoi and strconv.Itoa are computed, not assumed.  *)
(* Keys, field names and type names are plain strings.                     *)
(***************************************************************************)
EXTENDS Integers, Sequences, FiniteSets, TLC

VARIABLES typ, rec, pre, para, out, err, op, log, calls, fresh,
          alreadyWritten, sink, hist

vars == <<typ, rec, pre, para, out, err, op, log, calls, fresh,
          alreadyWritten, sink, hist>>

recVars == <<typ, rec, pre, para, out, err, op, log, calls, fresh>>
streamVars == <<alreadyWritten, sink, hist>>

(***************************************************************************)
(* Bounds of the model.                                                    *)
(***************************************************************************)
\* characters of value text a source paragraph holds, all keys together
MaxLen == 2
\* Unmarshal calls made on one record
MaxCalls == 1
\* keys of the raw Paragraph a record embeds
MaxRaw == 3
\* records handed to one Encoder, all Encode calls together
MaxEncodes == 3

\* the characters of paragraph values: a digit, a non-digit, the default
\* delimiter
Chars == {"1", ",", " "}

Digits == <<"0", "1", "2", "3", "4", "5", "6", "7", "8", "9">>

\* keys a source paragraph may hold
Keys == {"A", "B"}

RECURSIVE TextsOfLen(_)
TextsOfLen(n) ==
  IF n = 0 THEN {<<>>}
  ELSE {Append(t, c) : t \in TextsOfLen(n - 1), c \in Chars}

Texts == UNION {TextsOfLen(n) : n \in 0..MaxLen}

\* the source paragraphs: Paragraph.Values of the parsed input
RECURSIVE TotalLen(_, _)
TotalLen(vals, ks) ==
  IF ks = {} THEN 0
  ELSE LET k == CHOOSE x \in ks : TRUE
       IN Len(vals[k]) + TotalLen(vals, ks \ {k})

Paragraphs ==
  UNION {{v \in [ks -> Texts] : TotalLen(v, ks) <= MaxLen} : ks \in SUBSET Keys}

(***************************************************************************)
(* strings and strconv, as the Go standard library computes them.          *)
(***************************************************************************)
\* strings.Index, 1-based; 0 when sep does not occur
Index(s, sep) ==
  LET hits == {i \in 1..(Len(s) - Len(sep) + 1) :
                 SubSeq(s, i, i + Len(sep) - 1) = sep}
  IN IF hits = {} THEN 0 ELSE CHOOSE i \in hits : \A j \in hits : i <= j

\* strings.Split for a non-empty separator
RECURSIVE Split(_, _)
Split(s, sep) ==
  LET i == Index(s, sep)
  IN IF i = 0 THEN <<s>>
     ELSE <<SubSeq(s, 1, i - 1)>> \o Split(SubSeq(s, i + Len(sep), Len(s)), sep)

\* strings.Join
RECURSIVE Join(_, _)
Join(elems, sep) ==
  IF Len(elems) = 0 THEN <<>>
  ELSE IF Len(elems) = 1 THEN elems[1]
  ELSE elems[1] \o sep \o Join(Tail(elems), sep)

DigitValue(c) == (CHOOSE i \in 1..10 : Digits[i] = c) - 1
IsDigit(c) == \E i \in 1..10 : Digits[i] = c

RECURSIVE DigitsValue(_)
DigitsValue(s) ==
  IF Len(s) = 0 THEN 0
  ELSE 10 * DigitsValue(SubSeq(s, 1, Len(s) - 1)) + DigitValue(s[Len(s)])

\* strconv.Atoi: an optional sign, then at least one decimal digit
Atoi(s) ==
  LET signed == Len(s) > 0 /\ s[1] \in {"+", "-"}
      body == IF signed THEN Tail(s) ELSE s
  IN IF Len(body) = 0 \/ \E i \in 1..Len(body) : ~IsDigit(body[i])
     THEN [ok |-> FALSE, val |-> 0]
     ELSE [ok |-> TRUE,
           val |-> IF signed /\ s[1] = "-" THEN 0 - DigitsValue(body)
                   ELSE DigitsValue(body)]

RECURSIVE NatText(_)
NatText(n) ==
  IF n < 10 THEN <<Digits[n + 1]>>
  ELSE Append(NatText(n \div 10), Digits[(n % 10) + 1])

\* strconv.Itoa
Itoa(n) == IF n < 0 THEN <<"-">> \o NatText(0 - n) ELSE NatText(n)

(***************************************************************************)
(* The struct types of the application.  A field is described by what      *)
(* reflect reports of it: its name, its tags (control, required, delim),   *)
(* whether it is embedded (Anonymous), its Kind, and for a slice or a      *)
(* pointer the Kind of its element; tname names a struct type.             *)
(***************************************************************************)
F(name, control, required, delim, anon, kind, elem, tname) ==
  [name |-> name, control |-> control, required |-> required, delim |-> delim,
   anon |-> anon, kind |-> kind, elem |-> elem, tname |-> tname]

\* the types decodeCustomValue knows how to parse
CodecTypes == {"Dependency", "Version", "Arch"}

\* the struct types that implement Marshalable
MarshalableTypes == {"Dependency", "Version", "Arch"}

Schema(tname) ==
  CASE tname = "Source" ->
         <<F("Name", "A", TRUE, <<>>, FALSE, "String", "", ""),
           F("Tags", "B", FALSE, <<>>, FALSE, "Slice", "String", "")>>
    [] tname = "Counts" ->
         <<F("A", "", TRUE, <<>>, FALSE, "Int", "", ""),
           F("B", "", FALSE, <<",">>, FALSE, "Slice", "Int", "")>>
    [] tname = "Sizes" ->
         <<F("A", "", FALSE, <<>>, FALSE, "Uint", "", ""),
           F("B", "", TRUE, <<",">>, FALSE, "Slice", "String", "")>>
    [] tname = "Inner" ->
         <<F("A", "", FALSE, <<>>, FALSE, "Int", "", "")>>
    [] tname = "Outer" ->
         <<F("Inner", "", FALSE, <<>>, TRUE, "Struct", "", "Inner"),
           F("B", "", TRUE, <<>>, FALSE, "String", "", "")>>
    [] tname = "Hidden" ->
         <<F("A", "-", TRUE, <<>>, FALSE, "String", "", ""),
           F("X", "-", FALSE, <<>>, FALSE, "Struct", "", "Inner"),
           F("B", "", FALSE, <<>>, FALSE, "String", "", "")>>
    [] tname = "Holder" ->
         <<F("In", "", FALSE, <<>>, FALSE, "Struct", "", "Inner"),
           F("B", "", FALSE, <<>>, FALSE, "String", "", "")>>
    [] tname = "Keeper" ->
         <<F("Paragraph", "", FALSE, <<>>, TRUE, "Struct", "", "Paragraph"),
           F("A", "", FALSE, <<>>, FALSE, "String", "", "")>>
    [] tname = "Flags" ->
         <<F("A", "", FALSE, <<>>, FALSE, "Bool", "", ""),
           F("B", "", FALSE, <<>>, FALSE, "String", "", "")>>
    [] tname = "Rel" ->
         <<F("A", "", FALSE, <<>>, FALSE, "Struct", "", "Version"),
           F("B", "", FALSE, <<>>, FALSE, "Slice", "Struct", "Version")>>
    [] tname = "Ref" ->
         <<F("A", "", FALSE, <<>>, FALSE, "Ptr", "String", ""),
           F("B", "", FALSE, <<>>, FALSE, "String", "", "")>>
    [] tname = "Paragraph" ->
         <<F("Values", "", FALSE, <<>>, FALSE, "Map", "", ""),
           F("Order", "", FALSE, <<>>, FALSE, "Slice", "String", "")>>
    [] tname = "Version" ->
         <<F("Text", "", FALSE, <<>>, FALSE, "String", "", "")>>
    [] OTHER -> <<>>

\* the record types handed to Unmarshal and ConvertToParagraph
Types == {"Source", "Counts", "Sizes", "Outer", "Hidden", "Holder", "Keeper",
          "Flags", "Rel", "Ref"}

TypeOf(f) == [kind |-> f.kind, elem |-> f.elem, tname |-> f.tname]
ElemType(ty) == [kind |-> ty.elem, elem |-> "", tname |-> ty.tname]

\* the zero value of a type (reflect.New)
RECURSIVE Zero(_)
ZeroRec(tname) == [i \in 1..Len(Schema(tname)) |-> Zero(TypeOf(Schema(tname)[i]))]
Zero(ty) ==
  CASE ty.kind \in {"Int", "Uint"} -> 0
    [] ty.kind = "Bool" -> FALSE
    [] ty.kind = "Struct" -> ZeroRec(ty.tname)
    [] OTHER -> <<>>

(***************************************************************************)
(* Errors.  A decode error carries what its message carries: which         *)
(* failure it is, the field name put into the message, and for a failed    *)
(* assignment the cause reported by the value decoder.                     *)
(***************************************************************************)
NoErr == [kind |-> "ok", field |-> "", cause |-> ""]
SetErr(name, cause) == [kind |-> "set", field |-> name, cause |-> cause]
RequiredErr(name) == [kind |-> "required", field |-> name, cause |-> ""]
EncodeErr(cause) == [kind |-> "encode", field |-> "", cause |-> cause]

\* the parse function of a codec type (dependency.Parse, version.Parse,
\* dependency.ParseArch): rejects empty text and text holding white space
CodecParse(data) ==
  IF Len(data) = 0 \/ \E i \in 1..Len(data) : data[i] = " "
  THEN [ok |-> FALSE, val |-> <<>>]
  ELSE [ok |-> TRUE, val |-> <<data>>]

\* MarshalControl of a codec type
MarshalControl(value) == [ok |-> TRUE, text |-> value[1]]

(***************************************************************************)
(* decode.go                                                               *)
(***************************************************************************)
\* the key a field is stored under: its control tag, else its name
paragraphKey(f) == IF f.control # "" THEN f.control ELSE f.name

\* the delimiter of a slice field: its delim tag, else one space
delimOf(f) == IF f.delim # <<>> THEN f.delim ELSE <<" ">>

decodeCustomValue(ty, incoming, data) ==
  IF ty.tname \in CodecTypes
  THEN LET p == CodecParse(data)
       IN IF p.ok THEN [val |-> p.val, err |-> ""]
          ELSE [val |-> incoming, err |-> "codec"]
  ELSE [val |-> incoming, err |-> "unknown custom field type"]

RECURSIVE decodeValue(_, _, _, _)
RECURSIVE decodeTokens(_, _, _, _, _)

\* the loop of decodeCustomValues from token i on
decodeTokens(ety, incoming, f, toks, i) ==
  IF i > Len(toks) THEN [val |-> incoming, err |-> ""]
  ELSE LET r == decodeValue(ety, Zero(ety), f, toks[i])
       IN IF r.err # "" THEN [val |-> incoming, err |-> r.err]
          ELSE decodeTokens(ety, Append(incoming, r.val), f, toks, i + 1)

decodeCustomValues(ty, incoming, f, data) ==
  decodeTokens(ElemType(ty), incoming, f, Split(data, delimOf(f)), 1)

decodeValue(ty, incoming, f, data) ==
  CASE ty.kind = "String" -> [val |-> data, err |-> ""]
    [] ty.kind = "Int" ->
         IF data = <<>> THEN [val |-> 0, err |-> ""]
         ELSE LET a == Atoi(data)
              IN IF a.ok THEN [val |-> a.val, err |-> ""]
                 ELSE [val |-> incoming, err |-> "atoi"]
    [] ty.kind = "Slice" -> decodeCustomValues(ty, incoming, f, data)
    [] ty.kind = "Struct" -> decodeCustomValue(ty, incoming, data)
    [] OTHER -> [val |-> incoming, err |-> "unknown type of field"]

\* one key lookup of decodePointer, as recorded in the log
Lookup(tname, f) == [type |-> tname, field |-> f.name, key |-> paragraphKey(f)]

\* decodeFields with the error of a nested struct dropped instead of returned
RECURSIVE decodeFields_nestedErrorDropped(_, _, _, _, _)
decodeFields_nestedErrorDropped(tname, incoming, data, i, lg) ==
  IF i > Len(Schema(tname)) THEN [rec |-> incoming, err |-> NoErr, log |-> lg]
  ELSE
    LET f == Schema(tname)[i]
        sub == IF f.kind = "Struct"
               THEN decodeFields_nestedErrorDropped(f.tname, incoming[i], data, 1, lg)
               ELSE [rec |-> incoming[i], err |-> NoErr, log |-> lg]
        inc1 == [incoming EXCEPT ![i] = sub.rec]
        key == paragraphKey(f)
    IN IF key = "-"
       THEN decodeFields_nestedErrorDropped(tname, inc1, data, i + 1, sub.log)
       ELSE
         LET lg1 == Append(sub.log, Lookup(tname, f))
         IN IF key \in DOMAIN data
            THEN LET r == decodeValue(TypeOf(f), inc1[i], f, data[key])
                     inc2 == [inc1 EXCEPT ![i] = r.val]
                 IN IF r.err # ""
                    THEN [rec |-> inc2, err |-> SetErr(f.name, r.err), log |-> lg1]
                    ELSE decodeFields_nestedErrorDropped(tname, inc2, data, i + 1, lg1)
            ELSE IF f.required
                 THEN [rec |-> inc1, err |-> RequiredErr(f.name), log |-> lg1]
                 ELSE decodeFields_nestedErrorDropped(tname, inc1, data, i + 1, lg1)

\* decodeFields with the required tag ignored
RECURSIVE decodeFields_requiredIgnored(_, _, _, _, _)
decodeFields_requiredIgnored(tname, incoming, data, i, lg) ==
  IF i > Len(Schema(tname)) THEN [rec |-> incoming, err |-> NoErr, log |-> lg]
  ELSE
    LET f == Schema(tname)[i]
        sub == IF f.kind = "Struct"
               THEN decodeFields_requiredIgnored(f.tname, incoming[i], data, 1, lg)
               ELSE [rec |-> incoming[i], err |-> NoErr, log |-> lg]
        inc1 == [incoming EXCEPT ![i] = sub.rec]
        key == paragraphKey(f)
    IN IF sub.err # NoErr THEN [rec |-> inc1, err |-> sub.err, log |-> sub.log]
       ELSE IF key = "-"
       THEN decodeFields_requiredIgnored(tname, inc1, data, i + 1, sub.log)
       ELSE
         LET lg1 == Append(sub.log, Lookup(tname, f))
         IN IF key \in DOMAIN data
            THEN LET r == decodeValue(TypeOf(f), inc1[i], f, data[key])
                     inc2 == [inc1 EXCEPT ![i] = r.val]
                 IN IF r.err # ""
                    THEN [rec |-> inc2, err |-> SetErr(f.name, r.err), log |-> lg1]
                    ELSE decodeFields_requiredIgnored(tname, inc2, data, i + 1, lg1)
            ELSE decodeFields_requiredIgnored(tname, inc1, data, i + 1, lg1)

\* the loop of decodePointer over the fields of a struct from field i on;
\* lg records the key lookups made so far
RECURSIVE decodeFields(_, _, _, _, _)
decodeFields(tname, incoming, data, i, lg) ==
  IF i > Len(Schema(tname)) THEN [rec |-> incoming, err |-> NoErr, log |-> lg]
  ELSE
    LET f == Schema(tname)[i]
        sub == IF f.kind = "Struct"
               THEN decodeFields(f.tname, incoming[i], data, 1, lg)
               ELSE [rec |-> incoming[i], err |-> NoErr, log |-> lg]
        inc1 == [incoming EXCEPT ![i] = sub.rec]
        key == paragraphKey(f)
    IN IF sub.err # NoErr THEN [rec |-> inc1, err |-> sub.err, log |-> sub.log]
       ELSE IF key = "-" THEN decodeFields(tname, inc1, data, i + 1, sub.log)
       ELSE
         LET lg1 == Append(sub.log, Lookup(tname, f))
         IN IF key \in DOMAIN data
            THEN LET r == decodeValue(TypeOf(f), inc1[i], f, data[key])
                     inc2 == [inc1 EXCEPT ![i] = r.val]
                 IN IF r.err # ""
                    THEN [rec |-> inc2, err |-> SetErr(f.name, r.err), log |-> lg1]
                    ELSE decodeFields(tname, inc2, data, i + 1, lg1)
            ELSE IF f.required
                 THEN [rec |-> inc1, err |-> RequiredErr(f.name), log |-> lg1]
                 ELSE decodeFields(tname, inc1, data, i + 1, lg1)

\* decodePointer on a pointer to a struct of type tname
decodePointer(tname, incoming, data) == decodeFields(tname, incoming, data, 1, <<>>)

(***************************************************************************)
(* Paragraph: Order lists the keys, Values maps each key to its text.      *)
(***************************************************************************)
EmptyParagraph == [Order |-> <<>>, Values |-> <<>>]

\* the Paragraph held by an embedded Paragraph field (fields Values, Order)
ParagraphOf(v) == [Order |-> v[2], Values |-> v[1]]

SetKey(values, key, text) ==
  [k \in DOMAIN values \cup {key} |-> IF k = key THEN text ELSE values[k]]

\* the keys of order that are not in seen, in order, each once
RECURSIVE NewKeys(_, _)
NewKeys(order, seen) ==
  IF Len(order) = 0 THEN <<>>
  ELSE IF order[1] \in seen THEN NewKeys(Tail(order), seen)
  ELSE <<order[1]>> \o NewKeys(Tail(order), seen \cup {order[1]})

Range(seq) == {seq[i] : i \in 1..Len(seq)}

\* Paragraph.Update: the overlay's values replace the base's, the base keeps
\* its order, the keys only the overlay has follow in the overlay's order
Update(base, overlay) ==
  [Order |-> base.Order \o NewKeys(overlay.Order, Range(base.Order)),
   Values |-> [k \in DOMAIN base.Values \cup DOMAIN overlay.Values |->
                 IF k \in DOMAIN overlay.Values THEN overlay.Values[k]
                 ELSE base.Values[k]]]

(***************************************************************************)
(* encode.go                                                               *)
(***************************************************************************)
marshalStructValueStruct(ty, field) ==
  IF ty.tname \in MarshalableTypes
  THEN LET m == MarshalControl(field)
       IN IF m.ok THEN [text |-> m.text, err |-> ""]
          ELSE [text |-> <<>>, err |-> "codec"]
  ELSE [text |-> <<>>, err |-> "does not implement control.Marshalable"]

RECURSIVE marshalStructValue(_, _, _)
RECURSIVE marshalElems(_, _, _, _, _)

\* the loop of marshalStructValueSlice from element i on
marshalElems(ety, field, f, i, data) ==
  IF i > Len(field) THEN [text |-> Join(data, delimOf(f)), err |-> ""]
  ELSE LET r == marshalStructValue(ety, field[i], f)
       IN IF r.err # "" THEN [text |-> <<>>, err |-> r.err]
          ELSE marshalElems(ety, field, f, i + 1, Append(data, r.text))

marshalStructValueSlice(ty, field, f) ==
  marshalElems(ElemType(ty), field, f, 1, <<>>)

\* a pointer is <<>> when nil and <<v>> when it points to v; reflect panics
\* on the Elem of a nil pointer
marshalStructValue(ty, field, f) ==
  CASE ty.kind = "String" -> [text |-> field, err |-> ""]
    [] ty.kind = "Uint" -> [text |-> Itoa(field), err |-> ""]
    [] ty.kind = "Ptr" ->
         IF field = <<>> THEN [text |-> <<>>, err |-> "panic"]
         ELSE marshalStructValue(ElemType(ty), field[1], f)
    [] ty.kind = "Slice" -> marshalStructValueSlice(ty, field, f)
    [] ty.kind = "Struct" -> marshalStructValueStruct(ty, field)
    [] OTHER -> [text |-> <<>>, err |-> "Unknown type"]

\* convertFields with the merge turned round: the raw Paragraph laid over
\* the produced fields
RECURSIVE convertFields_rawWins(_, _, _, _, _, _)
convertFields_rawWins(tname, data, i, order, values, foundParagraph) ==
  IF i > Len(Schema(tname))
  THEN [para |-> Update([Order |-> order, Values |-> values], foundParagraph),
        err |-> NoErr]
  ELSE
    LET f == Schema(tname)[i]
    IN IF f.anon
       THEN convertFields_rawWins(tname, data, i + 1, order, values,
                                  IF f.tname = "Paragraph" THEN ParagraphOf(data[i])
                                  ELSE foundParagraph)
       ELSE IF paragraphKey(f) = "-"
       THEN convertFields_rawWins(tname, data, i + 1, order, values, foundParagraph)
       ELSE LET r == marshalStructValue(TypeOf(f), data[i], f)
            IN IF r.err # ""
               THEN [para |-> EmptyParagraph, err |-> EncodeErr(r.err)]
               ELSE convertFields_rawWins(tname, data, i + 1,
                                          Append(order, paragraphKey(f)),
                                          SetKey(values, paragraphKey(f), r.text),
                                          foundParagraph)

\* the loop of convertToParagraph from field i on
RECURSIVE convertFields(_, _, _, _, _, _)
convertFields(tname, data, i, order, values, foundParagraph) ==
  IF i > Len(Schema(tname))
  THEN [para |-> Update(foundParagraph, [Order |-> order, Values |-> values]),
        err |-> NoErr]
  ELSE
    LET f == Schema(tname)[i]
    IN IF f.anon
       THEN convertFields(tname, data, i + 1, order, values,
                          IF f.tname = "Paragraph" THEN ParagraphOf(data[i])
                          ELSE foundParagraph)
       ELSE IF paragraphKey(f) = "-"
       THEN convertFields(tname, data, i + 1, order, values, foundParagraph)
       ELSE LET r == marshalStructValue(TypeOf(f), data[i], f)
            IN IF r.err # ""
               THEN [para |-> EmptyParagraph, err |-> EncodeErr(r.err)]
               ELSE convertFields(tname, data, i + 1,
                                  Append(order, paragraphKey(f)),
                                  SetKey(values, paragraphKey(f), r.text),
                                  foundParagraph)

\* convertToParagraph on a struct of type tname
convertToParagraph(tname, data) ==
  convertFields(tname, data, 1, <<>>, <<>>, EmptyParagraph)

(***************************************************************************)
(* The values a record may hold before a call.                             *)
(***************************************************************************)
RawKeys == {"A", "Y", "Z"}

RawText(k) == IF k = "A" THEN <<",">> ELSE IF k = "Y" THEN <<"1">> ELSE <<" ">>

RECURSIVE OrdersOfLen(_)
OrdersOfLen(n) ==
  IF n = 0 THEN {<<>>}
  ELSE {Append(o, k) : o \in OrdersOfLen(n - 1), k \in RawKeys} 

RawOrders ==
  {o \in UNION {OrdersOfLen(n) : n \in 0..MaxRaw} :
     \A i, j \in 1..Len(o) : i # j => o[i] # o[j]}

\* an embedded Paragraph, as the fields Values and Order
RawParagraphs == {<<[k \in Range(o) |-> RawText(k)], o>> : o \in RawOrders}

ScalarValues(kind) ==
  CASE kind = "String" -> {<<>>, <<"1">>}
    [] kind \in {"Int", "Uint"} -> {0, 7}
    [] kind = "Bool" -> {FALSE, TRUE}
    [] kind = "Struct" -> {<< <<>> >>, << <<"1">> >>}
    [] OTHER -> {<<>>}

RECURSIVE RecordsUpTo(_, _)
FieldValues(f) ==
  CASE f.kind = "Slice" -> {<<>>} \cup {<<v>> : v \in ScalarValues(f.elem)}
    [] f.kind = "Ptr" -> {<<>>} \cup {<<v>> : v \in ScalarValues(f.elem)}
    [] f.kind = "Struct" /\ f.tname = "Paragraph" -> RawParagraphs
    [] f.kind = "Struct" /\ f.tname \in CodecTypes -> ScalarValues("Struct")
    [] f.kind = "Struct" -> RecordsUpTo(f.tname, Len(Schema(f.tname)))
    [] OTHER -> ScalarValues(f.kind)

RecordsUpTo(tname, n) ==
  IF n = 0 THEN {<<>>}
  ELSE {Append(r, v) : r \in RecordsUpTo(tname, n - 1),
                       v \in FieldValues(Schema(tname)[n])}

Records(tname) == RecordsUpTo(tname, Len(Schema(tname)))

(***************************************************************************)
(* The streaming Encoder.  The sink is the sequence of chunks the writer   *)
(* has accepted.                                                           *)
(***************************************************************************)
\* the chunk written by e.writer.Write([]byte("\n"))
Separator == [kind |-> "separator", para |-> EmptyParagraph]

\* the chunk Paragraph.WriteTo writes: the serialized form of the paragraph
WriteTo(paragraph) == [kind |-> "paragraph", para |-> paragraph]

\* encodeStruct with the alreadyWritten flag never set
encodeStruct_flagNeverSet(e, item) ==
  IF e.alreadyWritten /\ e.accepts = 0
  THEN [e EXCEPT !.err = "write"]
  ELSE
    LET e1 == IF e.alreadyWritten
              THEN [e EXCEPT !.sink = Append(@, Separator),
                             !.accepts = IF @ > 0 THEN @ - 1 ELSE @]
              ELSE e
        c == IF item.isPtr
             THEN [para |-> EmptyParagraph,
                   err |-> EncodeErr("Can only Decode a Struct")]
             ELSE convertToParagraph(item.typ, item.rec)
    IN IF c.err # NoErr THEN [e1 EXCEPT !.err = "convert"]
       ELSE IF e1.accepts = 0
       THEN [e1 EXCEPT !.err = "write"]
       ELSE [e1 EXCEPT !.sink = Append(@, WriteTo(c.para)),
                       !.accepts = IF @ > 0 THEN @ - 1 ELSE @]

\* Encoder.encodeStruct on one element.  e is the Encoder with its writer:
\* the alreadyWritten flag, the sink, and the number of writes the writer
\* still accepts before it fails (-1: it does not fail)
encodeStruct(e, item) ==
  IF e.alreadyWritten /\ e.accepts = 0
  THEN [e EXCEPT !.err = "write"]
  ELSE
    LET e1 == IF e.alreadyWritten
              THEN [e EXCEPT !.sink = Append(@, Separator),
                             !.accepts = IF @ > 0 THEN @ - 1 ELSE @]
              ELSE e
        c == IF item.isPtr
             THEN [para |-> EmptyParagraph,
                   err |-> EncodeErr("Can only Decode a Struct")]
             ELSE convertToParagraph(item.typ, item.rec)
    IN IF c.err # NoErr THEN [e1 EXCEPT !.err = "convert"]
       ELSE IF e1.accepts = 0
       THEN [e1 EXCEPT !.alreadyWritten = TRUE, !.err = "write"]
       ELSE [e1 EXCEPT !.alreadyWritten = TRUE,
                       !.sink = Append(@, WriteTo(c.para)),
                       !.accepts = IF @ > 0 THEN @ - 1 ELSE @]

\* Encoder.encodeSlice from element i on
RECURSIVE encodeSlice(_, _, _)
encodeSlice(e, items, i) ==
  IF i > Len(items) THEN e
  ELSE LET e1 == encodeStruct(e, items[i])
       IN IF e1.err # "" THEN e1 ELSE encodeSlice(e1, items, i + 1)

\* Encoder.encode: pointers are followed, then a slice or a struct is
\* encoded; anything else is an unknown type
RECURSIVE encode(_, _)
encode(e, data) ==
  IF data.ptr THEN encode(e, [data EXCEPT !.ptr = FALSE])
  ELSE CASE data.kind = "Slice" -> encodeSlice(e, data.items, 1)
         [] data.kind = "Struct" -> encodeStruct(e, data.items[1])
         [] OTHER -> [e EXCEPT !.err = "Unknown type"]

(***************************************************************************)
(* The state machine of one record: the application holds a record of      *)
(* type typ and a parsed source paragraph, and calls Unmarshal and         *)
(* ConvertToParagraph on it.                                               *)
(***************************************************************************)
StreamIdle == alreadyWritten = FALSE /\ sink = <<>> /\ hist = <<>>

Init ==
  /\ typ \in Types
  /\ rec \in Records(typ)
  /\ para \in Paragraphs
  /\ pre = rec
  /\ out = EmptyParagraph
  /\ err = NoErr
  /\ op = "init"
  /\ log = <<>>
  /\ calls = 0
  /\ fresh = <<>>
  /\ StreamIdle

\* Unmarshal(&rec, reader holding para)
Unmarshal ==
  /\ calls < MaxCalls
  /\ LET r == decodePointer(typ, rec, para)
     IN /\ rec' = r.rec
        /\ err' = r.err
        /\ log' = r.log
  /\ pre' = rec
  /\ op' = "decode"
  /\ calls' = calls + 1
  /\ out' = EmptyParagraph
  /\ fresh' = <<>>
  /\ UNCHANGED <<typ, para, streamVars>>

\* ConvertToParagraph(&rec), or ConvertToParagraph(rec) when ~pointer
ConvertToParagraph(pointer) ==
  /\ LET r == IF pointer THEN convertToParagraph(typ, rec)
              ELSE [para |-> EmptyParagraph,
                    err |-> EncodeErr("Can only Decode a pointer to a Struct")]
     IN /\ out' = r.para
        /\ err' = r.err
  /\ pre' = rec
  /\ op' = IF pointer THEN "encode" ELSE "encode value"
  /\ log' = <<>>
  /\ fresh' = <<>>
  /\ UNCHANGED <<typ, rec, para, calls, streamVars>>

\* the paragraph ConvertToParagraph returned is decoded into new(typ)
DecodeConverted ==
  /\ op = "encode"
  /\ err = NoErr
  /\ LET r == decodePointer(typ, ZeroRec(typ), out.Values)
     IN /\ fresh' = r.rec
        /\ err' = r.err
        /\ log' = r.log
  /\ op' = "redecode"
  /\ UNCHANGED <<typ, rec, pre, para, out, calls, streamVars>>

Next ==
  \/ Unmarshal
  \/ \E pointer \in BOOLEAN : ConvertToParagraph(pointer)
  \/ DecodeConverted

Spec == Init /\ [][Next]_vars

(***************************************************************************)
(* The state machine of one Encoder: the application makes Encode calls    *)
(* on it.  hist records each call: the records handed in, the error        *)
(* returned, the chunks the call wrote and the flag before and after.      *)
(***************************************************************************)
\* the records handed to Encode: two that convert, one that does not (an
\* int field), and a pointer element of a slice
StreamItems ==
  {[typ |-> t, rec |-> ZeroRec(t), isPtr |-> FALSE] :
     t \in {"Source", "Sizes", "Counts"}}
  \cup {[typ |-> "Source", rec |-> ZeroRec("Source"), isPtr |-> TRUE]}

RECURSIVE ItemSeqs(_)
ItemSeqs(n) ==
  IF n = 0 THEN {<<>>}
  ELSE ItemSeqs(n - 1)
       \cup {Append(q, it) : q \in {x \in ItemSeqs(n - 1) : Len(x) = n - 1},
                             it \in StreamItems}

RECURSIVE Handed(_)
Handed(h) == IF Len(h) = 0 THEN <<>> ELSE h[1].items \o Handed(Tail(h))

\* what Encode may be called with, given the records handed in so far
EncodeInputs(n) ==
  {[ptr |-> FALSE, kind |-> "Slice", items |-> q] :
     q \in ItemSeqs(MaxEncodes - n)}
  \cup {[ptr |-> p, kind |-> "Struct", items |-> <<it>>] :
          p \in BOOLEAN,
          it \in {x \in StreamItems : ~x.isPtr /\ n < MaxEncodes}}
  \cup {[ptr |-> FALSE, kind |-> "Int", items |-> <<>>]}

\* NewEncoder(writer), with no record in hand
InitStream ==
  /\ alreadyWritten = FALSE
  /\ sink = <<>>
  /\ hist = <<>>
  /\ typ = "Source"
  /\ rec = ZeroRec("Source")
  /\ pre = rec
  /\ para = <<>>
  /\ out = EmptyParagraph
  /\ err = NoErr
  /\ op = "init"
  /\ log = <<>>
  /\ calls = 0
  /\ fresh = <<>>

\* e.Encode(data), on a writer that accepts `accepts` more writes
Encode(data, accepts) ==
  /\ Len(hist) < MaxEncodes
  /\ LET e == encode([alreadyWritten |-> alreadyWritten, sink |-> sink,
                      accepts |-> accepts, err |-> ""], data)
     IN /\ alreadyWritten' = e.alreadyWritten
        /\ sink' = e.sink
        /\ hist' = Append(hist, [items |-> data.items, err |-> e.err,
                                 wrote |-> SubSeq(e.sink, Len(sink) + 1, Len(e.sink)),
                                 before |-> alreadyWritten,
                                 after |-> e.alreadyWritten])
  /\ UNCHANGED recVars

NextStream ==
  \E data \in EncodeInputs(Len(Handed(hist))), accepts \in -1..1 :
    Encode(data, accepts)

SpecStream == InitStream /\ [][NextStream]_vars

(***************************************************************************)
(* Vocabulary of the properties.                                           *)
(***************************************************************************)
\* the value at a path of field indexes
RECURSIVE Get(_, _)
Get(r, path) == IF Len(path) = 0 THEN r ELSE Get(r[path[1]], Tail(path))

\* the fields of a struct type in declaration order, a struct field's own
\* fields before the field itself, skipped fields left out; path locates
\* the field in a record, opaque says the field lies inside a codec value
RECURSIVE Steps(_, _, _, _)
Steps(tname, path, i, opaque) ==
  IF i > Len(Schema(tname)) THEN <<>>
  ELSE LET f == Schema(tname)[i]
           p == Append(path, i)
           inner == IF f.kind = "Struct"
                    THEN Steps(f.tname, p, 1, opaque \/ f.tname \in CodecTypes)
                    ELSE <<>>
           own == IF paragraphKey(f) = "-" THEN <<>>
                  ELSE <<[type |-> tname, f |-> f, path |-> p, opaque |-> opaque]>>
       IN inner \o own \o Steps(tname, path, i + 1, opaque)

StepsOf(tname) == Steps(tname, <<>>, 1, FALSE)

StepLookup(s) == Lookup(s.type, s.f)

\* a field that holds a value of its own: not a nested record
IsLeaf(s) == ~s.opaque /\ (s.f.kind # "Struct" \/ s.f.tname \in CodecTypes)

\* the value one token or one scalar text stands for
TextValue(kind, text) ==
  CASE kind = "String" -> text
    [] kind = "Int" -> IF text = <<>> THEN 0 ELSE Atoi(text).val
    [] OTHER -> <<text>>

\* the value a field holds once text has been decoded into it
DecodedValue(f, old, text) ==
  IF f.kind = "Slice"
  THEN LET toks == Split(text, delimOf(f))
       IN old \o [j \in 1..Len(toks) |-> TextValue(f.elem, toks[j])]
  ELSE TextValue(f.kind, text)

Decoded == op = "decode"
Failed == err # NoErr

\* the steps Unmarshal completed without an error
DoneSteps == IF Failed THEN Len(log) - 1 ELSE Len(log)

TopFields(t) == 1..Len(Schema(t))
Skipped(f) == paragraphKey(f) = "-"

\* the lookup of top-level field i of the record was made, and was the last
Reached(i) == Lookup(typ, Schema(typ)[i]) \in Range(log)
FailedAt(i) ==
  Failed /\ Len(log) > 0 /\ log[Len(log)] = Lookup(typ, Schema(typ)[i])

(***************************************************************************)
(* C9                                                                      *)
(***************************************************************************)
\* C9: Unmarshal is fail-fast in declaration order.  The key lookups it makes
\* are a prefix of the fields in declaration order (a nested struct's
\* fields before the field itself); it fails exactly when it stops early,
\* and then the error carries the name of the field it stopped at; each
\* field before that one holds its decoded value (for a slice its old
\* elements followed by the decoded tokens; its old value when its key is
\* absent) and each field after it holds its old value.
C9_FailFastInOrder ==
  Decoded =>
    LET steps == StepsOf(typ)
    IN /\ Len(log) <= Len(steps)
       /\ \A j \in 1..Len(log) : log[j] = StepLookup(steps[j])
       /\ Failed => Len(log) >= 1 /\ err.field = log[Len(log)].field
       /\ ~Failed => Len(log) = Len(steps)
       /\ \A j \in 1..Len(steps) :
            IsLeaf(steps[j]) =>
              LET s == steps[j]
                  key == paragraphKey(s.f)
                  old == Get(pre, s.path)
                  new == Get(rec, s.path)
              IN IF j <= DoneSteps
                 THEN new = IF key \in DOMAIN para
                            THEN DecodedValue(s.f, old, para[key])
                            ELSE old
                 ELSE j > Len(log) => new = old

\* C9 witness: a decode that assigned the first field and stopped at the
\* second with an error naming it
C9_Witness ==
  /\ Decoded
  /\ typ = "Counts"
  /\ FailedAt(2)
  /\ err = SetErr("B", "atoi")
  /\ pre[1] = 7
  /\ rec[1] = 1

\* a decode that stopped at the first lookup and left a later, populated
\* field alone although its key is in the paragraph
C9_LaterFieldUntouched ==
  /\ Decoded
  /\ typ = "Hidden"
  /\ err = SetErr("A", "atoi")
  /\ "B" \in DOMAIN para
  /\ rec[3] = <<"1">>
  /\ para["B"] # <<"1">>

(***************************************************************************)
(* C4                                                                      *)
(***************************************************************************)
\* C4 as stated: when Unmarshal reaches a required field whose key the
\* paragraph lacks, it returns a required-field error that names that key.
C4_RequiredNamesKey ==
  Decoded =>
    \A i \in TopFields(typ) :
      LET f == Schema(typ)[i]
      IN (Reached(i) /\ f.required /\ paragraphKey(f) \notin DOMAIN para)
           => err.kind = "required" /\ err.field = paragraphKey(f)

\* C4 amended: when Unmarshal reaches a required field whose key the
\* paragraph lacks, it stops there with a required-field error that names
\* the field by its declared name (not by its control key); when the key is
\* present the field raises no required-field error, and a string field
\* is assigned the text as it is, the empty text included, without error.
C4_RequiredNamesField ==
  Decoded =>
    \A i \in TopFields(typ) :
      LET f == Schema(typ)[i]
          key == paragraphKey(f)
      IN Reached(i) =>
           /\ (f.required /\ key \notin DOMAIN para)
                => FailedAt(i) /\ err = RequiredErr(f.name)
           /\ key \in DOMAIN para => ~(FailedAt(i) /\ err.kind = "required")
           /\ (key \in DOMAIN para /\ f.kind = "String")
                => ~FailedAt(i) /\ rec[i] = para[key]

\* C4 witness: a required field whose control key differs from its name is
\* missing from the paragraph, and the decode has reported it
C4_Witness ==
  /\ Decoded
  /\ typ = "Source"
  /\ "A" \notin DOMAIN para
  /\ err = RequiredErr("Name")

\* a required string field present with the empty text decodes without error
C4_EmptyTextAccepted ==
  /\ Decoded
  /\ typ = "Source"
  /\ "A" \in DOMAIN para
  /\ para["A"] = <<>>
  /\ ~Failed

(***************************************************************************)
(* C3                                                                      *)
(***************************************************************************)
\* C3: decoding a repeated-value field never partially commits: when a
\* token fails to decode the slice holds exactly the elements it held before
\* the call, otherwise it holds them followed by every decoded token in
\* split order.
C3_NoPartialCommit ==
  Decoded =>
    \A j \in 1..Len(log) :
      LET s == StepsOf(typ)[j]
          key == paragraphKey(s.f)
      IN (IsLeaf(s) /\ s.f.kind = "Slice" /\ key \in DOMAIN para) =>
           IF j = Len(log) /\ Failed
           THEN Get(rec, s.path) = Get(pre, s.path)
           ELSE Get(rec, s.path) = DecodedValue(s.f, Get(pre, s.path), para[key])

(***************************************************************************)
(* C5                                                                      *)
(***************************************************************************)
UnsupportedCauses ==
  {"unknown type of field", "unknown custom field type", "Unknown type",
   "does not implement control.Marshalable"}

\* a shape that is no string, integer, repeated value, nested record or codec
UnknownShape(f) == f.kind \in {"Bool", "Ptr", "Map"}

HasUnknownShape(t) ==
  \E i \in TopFields(t) : ~Skipped(Schema(t)[i]) /\ UnknownShape(Schema(t)[i])

\* the shapes decodeValue has a case for
DecodeAccepts(ty) ==
  \/ ty.kind \in {"String", "Int"}
  \/ ty.kind = "Struct" /\ ty.tname \in CodecTypes
  \/ /\ ty.kind = "Slice"
     /\ \/ ty.elem \in {"String", "Int"}
        \/ ty.elem = "Struct" /\ ty.tname \in CodecTypes

\* C5: a record with a non-skipped field of unknown shape makes every
\* Unmarshal and every ConvertToParagraph return an unsupported-type error,
\* and a record whose shapes the decoder accepts is not rejected as of
\* unsupported type by the encoder.
C5_UnknownShapeRejected ==
  /\ (op \in {"decode", "encode"} /\ HasUnknownShape(typ))
       => Failed /\ err.cause \in UnsupportedCauses
  /\ (op = "encode"
       /\ \A i \in TopFields(typ) : DecodeAccepts(TypeOf(Schema(typ)[i])))
       => err.cause \notin UnsupportedCauses

(***************************************************************************)
(* C6                                                                      *)
(***************************************************************************)
\* C6: a field whose control key is "-" contributes no key to the encoded
\* paragraph, and Unmarshal leaves it and everything nested in it as it was
\* and returns no error that arose inside it.
C6_SkipUntouched ==
  /\ (op = "encode" /\ ~Failed) => "-" \notin Range(out.Order)
  /\ Decoded =>
       \A i \in TopFields(typ) :
         Skipped(Schema(typ)[i]) =>
           /\ rec[i] = pre[i]
           /\ Failed => StepsOf(typ)[Len(log)].path[1] # i

(***************************************************************************)
(* C7                                                                      *)
(***************************************************************************)
HasRaw(t) ==
  \E i \in TopFields(t) : Schema(t)[i].anon /\ Schema(t)[i].tname = "Paragraph"

\* the raw Paragraph a record embeds
RawOf(t, r) ==
  ParagraphOf(r[CHOOSE i \in TopFields(t) :
                  Schema(t)[i].anon /\ Schema(t)[i].tname = "Paragraph"])

\* the fields that are encoded under a key
Modeled(t) == {i \in TopFields(t) : ~Schema(t)[i].anon /\ ~Skipped(Schema(t)[i])}
ModeledKeys(t) == {paragraphKey(Schema(t)[i]) : i \in Modeled(t)}

RECURSIVE Without(_, _)
Without(seq, ks) ==
  IF Len(seq) = 0 THEN <<>>
  ELSE IF seq[1] \in ks THEN Without(Tail(seq), ks)
  ELSE <<seq[1]>> \o Without(Tail(seq), ks)

\* C7: ConvertToParagraph on a record that embeds a raw Paragraph returns a
\* paragraph in which every raw key that no field models keeps its raw
\* text, every modeled string field's key carries the field's value even
\* when the raw Paragraph holds that key, and the raw keys that no field
\* models keep their relative order.
C7_PassThroughMerge ==
  (op = "encode" /\ HasRaw(typ)) =>
    LET raw == RawOf(typ, rec)
    IN /\ ~Failed
       /\ \A k \in DOMAIN raw.Values \ ModeledKeys(typ) :
            k \in DOMAIN out.Values /\ out.Values[k] = raw.Values[k]
       /\ \A i \in Modeled(typ) :
            LET key == paragraphKey(Schema(typ)[i])
            IN /\ key \in DOMAIN out.Values
               /\ key \in Range(out.Order)
               /\ Schema(typ)[i].kind = "String" => out.Values[key] = rec[i]
       /\ Without(out.Order, ModeledKeys(typ)) = Without(raw.Order, ModeledKeys(typ))

\* C7 witness: the raw Paragraph holds two keys no field models and, between
\* them, a key a field models with another text
C7_Witness ==
  /\ op = "encode"
  /\ typ = "Keeper"
  /\ RawOf(typ, rec).Order = <<"Z", "A", "Y">>
  /\ rec[2] = <<"1">>
  /\ out.Values["A"] = <<"1">>
  /\ out.Values["Z"] = <<" ">>

(***************************************************************************)
(* C8                                                                      *)
(***************************************************************************)
\* a non-skipped field that is a nested record
NestedRecord(f) ==
  f.kind = "Struct" /\ f.tname \notin CodecTypes \cup {"Paragraph"} /\ ~Skipped(f)

\* the keys Unmarshal reads when it populates the nested records of a type
NestedKeys(t) ==
  {paragraphKey(StepsOf(t)[j].f) :
     j \in {x \in 1..Len(StepsOf(t)) :
              /\ Len(StepsOf(t)[x].path) > 1
              /\ NestedRecord(Schema(t)[StepsOf(t)[x].path[1]])}}

\* C8: ConvertToParagraph on a record with a nested record emits the keys
\* of the nested record's fields, the keys Unmarshal reads for it, into the
\* same paragraph as the parent's keys.
C8_NestedFlattened ==
  (op = "encode" /\ \E i \in TopFields(typ) : NestedRecord(Schema(typ)[i]))
    => ~Failed /\ NestedKeys(typ) \subseteq Range(out.Order)

(***************************************************************************)
(* C1                                                                      *)
(***************************************************************************)
\* the record types whose fields are all strings, integers, repeated
\* values, nested records or codec values
RoundTripShape(f) ==
  /\ ~Skipped(f)
  /\ f.kind \in {"String", "Int", "Uint", "Slice", "Struct"}
  /\ f.tname # "Paragraph"

RoundTripType(t) == \A i \in TopFields(t) : RoundTripShape(Schema(t)[i])

\* C1: ConvertToParagraph succeeds on every record of such a type, and
\* decoding the paragraph it returns into a zero record gives the record
\* back field by field.
C1_RoundTrip ==
  RoundTripType(typ) =>
    /\ op = "encode" => ~Failed
    /\ op = "redecode" => ~Failed /\ fresh = rec

(***************************************************************************)
(* C2 and C10                                                              *)
(***************************************************************************)
AllReturnedNil == \A i \in 1..Len(hist) : hist[i].err = ""

\* the serialized forms of the records, one separator between neighbours
RECURSIVE Interleaved(_)
Interleaved(items) ==
  IF Len(items) = 0 THEN <<>>
  ELSE LET c == WriteTo(convertToParagraph(items[1].typ, items[1].rec).para)
       IN IF Len(items) = 1 THEN <<c>>
          ELSE <<c, Separator>> \o Interleaved(Tail(items))

\* C2: when every Encode call on an Encoder has returned nil, the sink holds
\* the serialized forms of the records handed in, in the order handed in,
\* with exactly one separator between neighbours, none before the first and
\* none after the last.
C2_StreamSeparator ==
  (AllReturnedNil /\ Len(Handed(hist)) >= 1) => sink = Interleaved(Handed(hist))

\* C2 witness: three records written by two calls, one of them with a slice
C2_Witness ==
  /\ AllReturnedNil
  /\ Len(hist) = 2
  /\ Len(hist[1].items) = 2
  /\ Len(sink) = 5
  /\ sink[2] = Separator
  /\ sink[4] = Separator

Chunks(kind) == Cardinality({i \in 1..Len(sink) : sink[i].kind = kind})

\* C10: as long as the writer has not failed, the sink holds one separator
\* less than records (none when it holds no record), every separator is
\* followed at once by a record, and a call whose single record failed to
\* convert wrote nothing and left alreadyWritten as it was.
C10_SeparatorInvariant ==
  (\A i \in 1..Len(hist) : hist[i].err # "write") =>
    /\ Chunks("separator")
         = IF Chunks("paragraph") = 0 THEN 0 ELSE Chunks("paragraph") - 1
    /\ \A i \in 1..Len(sink) :
         sink[i].kind = "separator"
           => i < Len(sink) /\ sink[i + 1].kind = "paragraph"
    /\ \A i \in 1..Len(hist) :
         (hist[i].err = "convert" /\ Len(hist[i].items) = 1)
           => hist[i].wrote = <<>> /\ hist[i].after = hist[i].before

====
